---- MODULE Spec2Model ----
(***************************************************************************)
(* Model of trader_analysis.py: a two-stage script.  load_and_clean_data   *)
(* reads two CSV tables, derives a per-row calendar-date key and drops the *)
(* rows without one; analyze_and_visualize inner-joins the tables on that  *)
(* key, detects the profit/loss, leverage and sentiment-score columns,     *)
(* buckets the score and writes up to three charts into images/.           *)
(*                                                                         *)
(* A table is a record [cols, rows]: cols is the sequence of column names, *)
(* rows a sequence of functions from column name to cell.  A cell is a     *)
(* tagged record: a number m * 10^(-e), NaN, NaT, Python None or a text    *)
(* (sequence of one-character strings).                                    *)
(***************************************************************************)
EXTENDS Integers, Sequences, FiniteSets, TLC

VARIABLES
    pc,            \* position of the script
    exists,        \* paths for which os.path.exists is true
    trader_csv,    \* content of the trader file, as read_csv returns it
                   \* (NoneDf when there is no file)
    sentiment_csv, \* content of the sentiment file
    trader_df,     \* t_df of __main__ (None_df until load returns)
    sentiment_df,  \* s_df of __main__
    merged_df,     \* merged_df of analyze_and_visualize
    images_dir,    \* whether the directory images/ exists
    images,        \* function: chart file written -> its categorical axis
    out,           \* sequence of printed messages
    val,           \* argument of get_bucket (bucket harness)
    bucket,        \* result of get_bucket
    text,          \* a profit/loss cell (pnl cleaning harness)
    pnl_clean      \* the cell's value in column pnl_clean

vars == <<pc, exists, trader_csv, sentiment_csv, trader_df, sentiment_df,
          merged_df, images_dir, images, out, val, bucket, text, pnl_clean>>

----------------------------------------------------------------------------
(* Bounds *)

MaxRows == 2       \* rows per input table
MaxLen == 4        \* length of an enumerated profit/loss text
MaxScore == 101    \* largest enumerated integer sentiment score

----------------------------------------------------------------------------
(* Cells *)

Num(m, e) == [k |-> "num", m |-> m, e |-> e, s |-> <<>>]
Int0(n) == Num(n, 0)
NaN == [k |-> "nan", m |-> 0, e |-> 0, s |-> <<>>]
NaT == [k |-> "nat", m |-> 0, e |-> 0, s |-> <<>>]
None == [k |-> "none", m |-> 0, e |-> 0, s |-> <<>>]
Str(s) == [k |-> "str", m |-> 0, e |-> 0, s |-> s]

\* pandas isna / notna
IsNA(c) == c.k \in {"nan", "nat", "none"}

RECURSIVE Pow10(_)
Pow10(e) == IF e = 0 THEN 1 ELSE 10 * Pow10(e - 1)

----------------------------------------------------------------------------
(* Numeric texts: what float() and pandas.to_numeric accept over the       *)
(* alphabet of the model (an optional '-', digits, at most one '.', at     *)
(* least one digit).                                                       *)

Digits == {"0", "1", "2", "3", "4", "5", "6", "7", "8", "9"}

DigitVal(c) ==
    CASE c = "0" -> 0 [] c = "1" -> 1 [] c = "2" -> 2 [] c = "3" -> 3
      [] c = "4" -> 4 [] c = "5" -> 5 [] c = "6" -> 6 [] c = "7" -> 7
      [] c = "8" -> 8 [] c = "9" -> 9

Body(s) == IF Len(s) > 0 /\ s[1] = "-" THEN Tail(s) ELSE s

IsNumericText(s) ==
    LET b == Body(s) IN
    /\ \A i \in 1..Len(b) : b[i] \in Digits \cup {"."}
    /\ Cardinality({i \in 1..Len(b) : b[i] = "."}) <= 1
    /\ \E i \in 1..Len(b) : b[i] \in Digits

RECURSIVE DigitsValue(_)
DigitsValue(d) ==
    IF Len(d) = 0 THEN 0
    ELSE 10 * DigitsValue(SubSeq(d, 1, Len(d) - 1)) + DigitVal(d[Len(d)])

RECURSIVE Normalized(_, _)
Normalized(m, e) ==
    IF e > 0 /\ m % 10 = 0 THEN Normalized(m \div 10, e - 1) ELSE Num(m, e)

\* value of a numeric text as m * 10^(-e), without trailing fraction zeros
TextValue(s) ==
    LET b == Body(s)
        dot == {i \in 1..Len(b) : b[i] = "."}
        e == IF dot = {} THEN 0 ELSE Len(b) - (CHOOSE i \in dot : TRUE)
        m == DigitsValue(SelectSeq(b, LAMBDA c : c \in Digits))
        sign == IF Len(s) > 0 /\ s[1] = "-" THEN -1 ELSE 1
    IN Normalized(sign * m, e)

\* Series.str.replace(ch, '') with a literal one-character pattern
StrReplace(s, ch) == SelectSeq(s, LAMBDA c : c # ch)

\* the decimal digits of n >= 0, at least w of them
RECURSIVE DigitsOf(_, _)
DigitsOf(n, w) ==
    IF n < 10 /\ w <= 1 THEN <<CHOOSE c \in Digits : DigitVal(c) = n>>
    ELSE Append(DigitsOf(n \div 10, w - 1), CHOOSE c \in Digits : DigitVal(c) = n % 10)

\* str() of a number m * 10^(-e)
NumText(c) ==
    LET a == IF c.m < 0 THEN -c.m ELSE c.m
        d == DigitsOf(a, c.e + 1)
        whole == SubSeq(d, 1, Len(d) - c.e)
        frac == SubSeq(d, Len(d) - c.e + 1, Len(d))
    IN (IF c.m < 0 THEN <<"-">> ELSE <<>>) \o whole \o (IF c.e > 0 THEN <<".">> \o frac ELSE <<>>)

\* Series.astype(str) on a cell of an object column
AsStr(c) ==
    CASE c.k = "str" -> c.s
      [] c.k = "num" -> NumText(c)
      [] c.k = "none" -> <<"N", "o", "n", "e">>
      [] OTHER -> <<"n", "a", "n">>

\* pd.to_numeric(..., errors='coerce') on one cell
ToNumeric(c) ==
    CASE c.k = "num" -> c
      [] c.k = "str" -> IF IsNumericText(c.s) THEN TextValue(c.s) ELSE NaN
      [] OTHER -> NaN

\* line 134: the profit/loss cell of an object column
CleanPnlNoDollar(c) == ToNumeric(Str(StrReplace(AsStr(c), ",")))
CleanPnl(c) == ToNumeric(Str(StrReplace(StrReplace(AsStr(c), ","), "$")))

----------------------------------------------------------------------------
(* get_bucket *)

\* v < n for a number v = m * 10^(-e); every comparison with NaN is false
Less(v, n) == v.k = "num" /\ v.m < n * Pow10(v.e)

\* float(val): a number, NaN, or the exception ("raise")
Float(c) ==
    CASE c.k = "num" -> c
      [] c.k = "nan" -> NaN
      [] c.k = "str" -> IF IsNumericText(c.s) THEN TextValue(c.s) ELSE Str(<<"raise">>)
      [] OTHER -> Str(<<"raise">>)

get_bucket_low(c) ==
    LET v == Float(c) IN
    IF v.k = "str" THEN "Unknown"
    ELSE IF Less(v, 25) \/ v = Int0(25) THEN "Extreme Fear"
    ELSE IF Less(v, 50) \/ v = Int0(50) THEN "Fear"
    ELSE IF Less(v, 75) \/ v = Int0(75) THEN "Greed"
    ELSE "Extreme Greed"
get_bucket(c) ==
    LET v == Float(c) IN
    IF v.k = "str" THEN "Unknown"
    ELSE IF Less(v, 25) THEN "Extreme Fear"
    ELSE IF Less(v, 50) THEN "Fear"
    ELSE IF Less(v, 75) THEN "Greed"
    ELSE "Extreme Greed"

----------------------------------------------------------------------------
(* Tables *)

NoneDf == [cols |-> <<"None">>, rows |-> <<>>]    \* Python None for a table

Range(f) == {f[i] : i \in DOMAIN f}

HasCol(df, c) == c \in Range(df.cols)

\* df[name] = f(row) for every row
SetCol(df, name, f(_)) ==
    [cols |-> IF HasCol(df, name) THEN df.cols ELSE Append(df.cols, name),
     rows |-> [i \in DOMAIN df.rows |->
                 [c \in Range(df.cols) \cup {name} |->
                    IF c = name THEN f(df.rows[i]) ELSE df.rows[i][c]]]]

\* df.columns = [c.lower().strip() for c in df.columns], on the column
\* names of the model
LowerStrip(c) ==
    CASE c = "Timestamp" -> "timestamp"
      [] c = "Timestamp IST" -> "timestamp ist"
      [] c = "Closed PnL" -> "closed pnl"
      [] c = " Leverage" -> "leverage"
      [] c = "Value " -> "value"
      [] c = "Date" -> "date"
      [] OTHER -> c

NormalizeColumns(df) ==
    [cols |-> [i \in DOMAIN df.cols |-> LowerStrip(df.cols[i])],
     rows |-> [i \in DOMAIN df.rows |->
                 [c \in {LowerStrip(x) : x \in Range(df.cols)} |->
                    df.rows[i][CHOOSE x \in Range(df.cols) : LowerStrip(x) = c]]]]

\* pd.api.types.is_numeric_dtype(df[c]): read_csv gives a column of numbers
\* (NaN for an empty field) a numeric dtype, and a column with a text or
\* without any row the dtype object
IsNumericDtype(df, c) ==
    /\ Len(df.rows) > 0
    /\ \A i \in DOMAIN df.rows : df.rows[i][c].k \in {"num", "nan"}

IsObjectDtype(df, c) == ~IsNumericDtype(df, c)

----------------------------------------------------------------------------
(* Dates.  A datetime is a number of milliseconds since the epoch.  The    *)
(* date texts of the model are "DD-01-1970 HH:00" (day first) and          *)
(* "1970-01-DD"; every other text is unparseable.                          *)

MsPerHour == 3600000
MsPerDay == 86400000

TwoDigits(a, b) == 10 * DigitVal(a) + DigitVal(b)

IsDayFirstText(s) ==
    /\ Len(s) = 16
    /\ SubSeq(s, 3, 11) = <<"-", "0", "1", "-", "1", "9", "7", "0", " ">>
    /\ SubSeq(s, 14, 16) = <<":", "0", "0">>
    /\ \A i \in {1, 2, 12, 13} : s[i] \in Digits
    /\ TwoDigits(s[1], s[2]) \in 1..31
    /\ TwoDigits(s[12], s[13]) \in 0..23

IsIsoText(s) ==
    /\ Len(s) = 10
    /\ SubSeq(s, 1, 8) = <<"1", "9", "7", "0", "-", "0", "1", "-">>
    /\ \A i \in {9, 10} : s[i] \in Digits
    /\ TwoDigits(s[9], s[10]) \in 1..31

\* pd.to_datetime(text, dayfirst=True, format='mixed', errors='coerce')
ParseDate(c) ==
    IF c.k # "str" THEN NaT
    ELSE IF IsDayFirstText(c.s)
         THEN Int0((TwoDigits(c.s[1], c.s[2]) - 1) * MsPerDay
                   + TwoDigits(c.s[12], c.s[13]) * MsPerHour)
    ELSE IF IsIsoText(c.s)
         THEN Int0((TwoDigits(c.s[9], c.s[10]) - 1) * MsPerDay)
    ELSE NaT

\* pd.to_datetime(number, unit='ms')
FromEpochMs(c) == IF c.k = "num" THEN Int0(c.m) ELSE NaT

\* Series.dt.normalize(): the time of day is set to midnight
DtNormalize(c) == IF c.k = "num" THEN Int0(c.m - (c.m % MsPerDay)) ELSE NaT

\* df.dropna(subset=[col])
DropNAKeep(df, col) == df
DropNA(df, col) ==
    [cols |-> df.cols, rows |-> SelectSeq(df.rows, LAMBDA r : ~IsNA(r[col]))]

----------------------------------------------------------------------------
(* 1. load_and_clean_data *)

TRADER_DATA_PATH == "data/historical_data.csv"
SENTIMENT_DATA_PATH == "data/fear_greed_index.csv"
TraderFallback == "historical_data.csv"
SentimentFallback == "fear_greed_index.csv"
Paths == {TRADER_DATA_PATH, TraderFallback, SENTIMENT_DATA_PATH, SentimentFallback}

TraderFound(ex) == TRADER_DATA_PATH \in ex \/ TraderFallback \in ex
SentimentFound(ex) == SENTIMENT_DATA_PATH \in ex \/ SentimentFallback \in ex

\* which column the trader datetime is taken from ("" for none)
TraderTimeCol(df) ==
    IF HasCol(df, "timestamp") /\ IsNumericDtype(df, "timestamp") THEN "timestamp"
    ELSE IF HasCol(df, "timestamp ist") THEN "timestamp ist"
    ELSE ""

SentimentDateCol(df) ==
    IF HasCol(df, "date") THEN "date"
    ELSE IF HasCol(df, "timestamp") THEN "timestamp"
    ELSE ""

\* lines 73-78 and 95
TraderDatetime(r, col) ==
    IF col = "timestamp" THEN FromEpochMs(r[col]) ELSE ParseDate(r[col])

FixTraderDates(df) ==
    LET col == TraderTimeCol(df)
        dt(r) == TraderDatetime(r, col)
        key(r) == DtNormalize(r["datetime"])
    IN SetCol(SetCol(df, "datetime", dt), "date_key", key)

\* lines 84-89 and 96
FixSentimentDates(df) ==
    LET col == SentimentDateCol(df)
        raw(r) == ParseDate(r[col])
        key(r) == DtNormalize(r["date_key_raw"])
    IN SetCol(SetCol(df, "date_key_raw", raw), "date_key", key)

\* Series.min() / Series.max() of the date keys; NaT for an empty table
Keys(df) == {df.rows[i]["date_key"] : i \in DOMAIN df.rows}
KeyMin(df) ==
    IF df.rows = <<>> THEN NaT
    ELSE CHOOSE a \in Keys(df) : \A b \in Keys(df) : a.m <= b.m
KeyMax(df) ==
    IF df.rows = <<>> THEN NaT
    ELSE CHOOSE a \in Keys(df) : \A b \in Keys(df) : a.m >= b.m

\* a < b on datetimes; every comparison with NaT is false
DtLess(a, b) == a.k = "num" /\ b.k = "num" /\ a.m < b.m

\* line 109: t_max < s_min or t_min > s_max
RangesDisjoint(t, s) ==
    DtLess(KeyMax(t), KeyMin(s)) \/ DtLess(KeyMax(s), KeyMin(t))

Failed(msgs) == [t |-> NoneDf, s |-> NoneDf, out |-> msgs]

\* the whole function: the returned pair and what it printed
load_and_clean_data(ex, tcsv, scsv) ==
    LET t0 == NormalizeColumns(tcsv)
        s0 == NormalizeColumns(scsv)
        t1 == DropNA(FixTraderDates(t0), "date_key")
        s1 == DropNA(FixSentimentDates(s0), "date_key")
        m0 == <<"--- 1. LOADING & DIAGNOSING DATA ---">>
        m1 == Append(m0, IF TraderTimeCol(t0) = "timestamp"
                         THEN "-> Using numeric 'timestamp' column for Trader Data..."
                         ELSE "-> Using string 'timestamp ist' column for Trader Data...")
        m2 == Append(m1, IF SentimentDateCol(s0) = "date"
                         THEN "-> Using 'date' column for Sentiment Data..."
                         ELSE "-> Using 'timestamp' column for Sentiment Data...")
        m3 == m2 \o <<"[DEBUG] Trader Data Date Range", "[DEBUG] Sentiment Data Date Range">>
    IN
    IF ~TraderFound(ex)
    THEN Failed(Append(m0, "CRITICAL ERROR: Could not find trader data."))
    ELSE IF ~SentimentFound(ex)
    THEN Failed(Append(m0, "CRITICAL ERROR: Could not find sentiment data."))
    ELSE IF TraderTimeCol(t0) = ""
    THEN Failed(Append(m0, "ERROR: Could not find a recognizable time column in Trader Data."))
    ELSE IF SentimentDateCol(s0) = ""
    THEN Failed(Append(m1, "ERROR: Could not find a recognizable date column in Sentiment Data."))
    ELSE [t |-> t1, s |-> s1,
          out |-> IF RangesDisjoint(t1, s1)
                  THEN Append(m3, "CRITICAL WARNING: The date ranges do NOT overlap.")
                  ELSE m3]

----------------------------------------------------------------------------
(* 2. analyze_and_visualize: the merge *)

\* pd.merge names a column that both tables have c_x and c_y
LeftName(c, t, s) == IF c # "date_key" /\ HasCol(s, c) THEN c \o "_x" ELSE c
RightName(c, t, s) == IF HasCol(t, c) THEN c \o "_y" ELSE c

RightCols(s) == SelectSeq(s.cols, LAMBDA c : c # "date_key")

MergedCols(t, s) ==
    [i \in DOMAIN t.cols |-> LeftName(t.cols[i], t, s)]
    \o [i \in DOMAIN RightCols(s) |-> RightName(RightCols(s)[i], t, s)]

Combine(r, q, t, s) ==
    [c \in Range(MergedCols(t, s)) |->
        IF \E x \in Range(t.cols) : LeftName(x, t, s) = c
        THEN r[CHOOSE x \in Range(t.cols) : LeftName(x, t, s) = c]
        ELSE q[CHOOSE x \in Range(RightCols(s)) : RightName(x, t, s) = c]]

\* the rows of s that join row r, in the order of s
MatchesFirst(r, s) ==
    LET ms == SelectSeq(s.rows, LAMBDA q : q["date_key"] = r["date_key"])
    IN IF ms = <<>> THEN <<>> ELSE <<ms[1]>>
MatchesLeft(r, s) ==
    LET ms == SelectSeq(s.rows, LAMBDA q : q["date_key"] = r["date_key"])
    IN IF ms = <<>> THEN <<[c \in Range(s.cols) |-> NaN]>> ELSE ms
Matches(r, s) == SelectSeq(s.rows, LAMBDA q : q["date_key"] = r["date_key"])

RECURSIVE JoinFrom(_, _, _)
JoinFrom(t, s, i) ==
    IF i > Len(t.rows) THEN <<>>
    ELSE LET ms == Matches(t.rows[i], s)
         IN [j \in DOMAIN ms |-> Combine(t.rows[i], ms[j], t, s)] \o JoinFrom(t, s, i + 1)

\* pd.merge(trader_df, sentiment_df, on='date_key', how='inner')
Merge(t, s) == [cols |-> MergedCols(t, s), rows |-> JoinFrom(t, s, 1)]

----------------------------------------------------------------------------
(* 2. analyze_and_visualize: column mapping *)

\* sub in c, for the column names of the model
HasSub(c, sub) ==
    CASE sub = "pnl" -> c \in {"closed pnl", "pnl_clean"}
      [] sub = "leverage" -> c \in {"leverage"}
      [] sub = "value" -> c \in {"value", "sentiment_value", "size value"}
      [] sub = "size" -> c \in {"size usd", "size value"}
      [] OTHER -> FALSE

\* next((c for c in columns if P(c)), None), "" for None
First(cols, P(_)) ==
    LET m == SelectSeq(cols, P) IN IF m = <<>> THEN "" ELSE m[1]

IsPnlCol(c) == HasSub(c, "pnl")
IsLevCol(c) == HasSub(c, "leverage")
IsValCol(c) == HasSub(c, "value") /\ ~HasSub(c, "size")

\* lines 131-138
MapPnl(m) ==
    LET pnl_col == First(m.cols, IsPnlCol)
        clean(r) == IF IsObjectDtype(m, pnl_col) THEN CleanPnl(r[pnl_col]) ELSE r[pnl_col]
    IN IF pnl_col # "" THEN SetCol(m, "pnl_clean", clean) ELSE m

\* lines 141-145
MapLev(m) ==
    LET lev_col == First(m.cols, IsLevCol)
        clean(r) == IF lev_col # "" THEN ToNumeric(r[lev_col]) ELSE None
    IN SetCol(m, "lev_clean", clean)

\* lines 148-159
MapVal(m) ==
    LET val_col == First(m.cols, IsValCol)
        value(r) == r[val_col]
        bkt(r) == Str(<<get_bucket(r["sentiment_value"])>>)
    IN IF val_col # "" THEN SetCol(SetCol(m, "sentiment_value", value), "sentiment_bucket", bkt)
       ELSE m

Mapping(m) == MapVal(MapLev(MapPnl(m)))

MappingOut(m) ==
    IF First(m.cols, IsPnlCol) = "" THEN <<"WARNING: PnL column not found.">> ELSE <<>>

----------------------------------------------------------------------------
(* 3. analyze_and_visualize: the plots *)

order == <<"Extreme Fear", "Fear", "Greed", "Extreme Greed">>

\* groupby('sentiment_bucket')[...].mean().index: the buckets of the table,
\* sorted as strings
SortedBuckets == <<"Extreme Fear", "Extreme Greed", "Fear", "Greed", "Unknown">>
GroupIndex(m) ==
    SelectSeq(SortedBuckets,
              LAMBDA b : \E i \in DOMAIN m.rows : m.rows[i]["sentiment_bucket"] = Str(<<b>>))

\* perf.reindex([x for x in order if x in perf.index])
ReindexNone(idx) == idx
Reindex(idx) == SelectSeq(order, LAMBDA x : x \in Range(idx))

PnlFile == "images/pnl_by_sentiment.png"
LevFile == "images/leverage_vs_sentiment.png"
WinFile == "images/win_rate_by_sentiment.png"
ImageFiles == {PnlFile, LevFile, WinFile}

NoImages == [f \in {} |-> <<>>]

\* the conditions of lines 169, 199 and 217
BarsWanted(m) == HasCol(m, "pnl_clean") /\ HasCol(m, "sentiment_bucket")
LevWanted(m) ==
    HasCol(m, "lev_clean") /\ \E i \in DOMAIN m.rows : ~IsNA(m.rows[i]["lev_clean"])

\* line 201 reads merged_df['sentiment_value']: KeyError without the column
LevRaises(m) == LevWanted(m) /\ ~HasCol(m, "sentiment_value")

\* line 218
IsWin(r) == IF r["pnl_clean"].k = "num" /\ r["pnl_clean"].m > 0 THEN Int0(1) ELSE Int0(0)

Plot1(m, img) == IF BarsWanted(m) THEN (PnlFile :> Reindex(GroupIndex(m))) @@ img ELSE img
Plot1Out(m) ==
    IF BarsWanted(m) THEN <<"-> Saved professional images/pnl_by_sentiment.png">> ELSE <<>>

Plot2(m, img) == IF LevWanted(m) THEN (LevFile :> <<>>) @@ img ELSE img
Plot2Out(m) ==
    IF LevWanted(m) THEN <<"-> Saved professional images/leverage_vs_sentiment.png">>
    ELSE <<"-> Leverage column missing. Skipping leverage plot.">>

Plot3(m, img) == IF BarsWanted(m) THEN (WinFile :> Reindex(GroupIndex(m))) @@ img ELSE img
Plot3Out(m) ==
    IF BarsWanted(m) THEN <<"-> Saved professional images/win_rate_by_sentiment.png">> ELSE <<>>
Plot3Table(m) == IF BarsWanted(m) THEN SetCol(m, "is_win", IsWin) ELSE m

\* the whole function on (trader_df, sentiment_df): how it ends ("return"
\* for a return, "raise" for the KeyError), merged_df, the files and the
\* messages
analyze_and_visualize(t, s, dir) ==
    LET m0 == Merge(t, s)
        m == Mapping(m0)
        o0 == <<"--- 2. MERGING & MAPPING ---", "Merged Rows">>
        o1 == o0 \o MappingOut(m0) \o <<"--- 3. GENERATING PROFESSIONAL PLOTS ---">> \o Plot1Out(m)
        i1 == Plot1(m, NoImages)
    IN
    IF m0.rows = <<>>
    THEN [end |-> "return", merged |-> m0, dir |-> dir, images |-> NoImages,
          out |-> Append(o0, "ERROR: Merged DataFrame is still empty.")]
    ELSE IF LevRaises(m)
    THEN [end |-> "raise", merged |-> m, dir |-> TRUE, images |-> i1, out |-> o1]
    ELSE [end |-> "return", merged |-> Plot3Table(m), dir |-> TRUE,
          images |-> Plot3(m, Plot2(m, i1)),
          out |-> o1 \o Plot2Out(m) \o Plot3Out(m) \o <<"SUCCESS: Analysis Finished.">>]

----------------------------------------------------------------------------
(* Inputs *)

SeqsUpTo(S, n) == UNION {[1..k -> S] : k \in 0..n}

DigitChar(n) == CHOOSE c \in Digits : DigitVal(c) = n

\* "0d-01-1970 12:00" and "1970-01-0d"
DayFirstText(d) ==
    <<"0", DigitChar(d), "-", "0", "1", "-", "1", "9", "7", "0", " ", "1", "2", ":", "0", "0">>
IsoText(d) == <<"1", "9", "7", "0", "-", "0", "1", "-", "0", DigitChar(d)>>
BadText == <<"n", "/", "a">>

\* the calendar days of January 1970 the inputs range over
Days == {1, 2}
Noon(d) == (d - 1) * MsPerDay + 12 * MsPerHour
Midnight(d) == (d - 1) * MsPerDay

MsCells == {NaN} \cup {Int0(Noon(d)) : d \in Days}
DayFirstCells == {Str(BadText)} \cup {Str(DayFirstText(d)) : d \in Days}
IsoCells == {Str(BadText)} \cup {Str(IsoText(d)) : d \in Days}

\* the sentiment score published for a date cell
ScoreOf(c) == IF ParseDate(c).k = "num" THEN Int0(20 * (ParseDate(c).m \div MsPerDay) + 20) ELSE NaN

Table(cols, rows) == [cols |-> cols, rows |-> rows]

\* trader files: an epoch-millisecond file, a day-first text file with the
\* profit/loss as text, and a file without a time column
TraderMsRow(c) == [x \in {"Timestamp", "Closed PnL", " Leverage"} |->
    CASE x = "Timestamp" -> c [] x = "Closed PnL" -> Int0(10) [] OTHER -> Int0(3)]
TraderTextRow(c) == [x \in {"Timestamp IST", "Closed PnL"} |->
    IF x = "Timestamp IST" THEN c ELSE Str(<<"$", "1", ",", "0", "0", "0">>)]
TraderBareRow == [x \in {"Closed PnL"} |-> Int0(10)]

TraderFiles ==
    {Table(<<"Timestamp", "Closed PnL", " Leverage">>, [i \in DOMAIN q |-> TraderMsRow(q[i])]) :
        q \in SeqsUpTo(MsCells, MaxRows)}
    \cup {Table(<<"Timestamp IST", "Closed PnL">>, [i \in DOMAIN q |-> TraderTextRow(q[i])]) :
        q \in SeqsUpTo(DayFirstCells, MaxRows)}
    \cup {Table(<<"Closed PnL">>, [i \in 1..k |-> TraderBareRow]) : k \in 0..MaxRows}

SentimentDateRow(c) == [x \in {"Date", "Value "} |-> IF x = "Date" THEN c ELSE ScoreOf(c)]
SentimentStampRow(c) == [x \in {"timestamp", "value"} |-> IF x = "timestamp" THEN c ELSE ScoreOf(c)]
SentimentBareRow == [x \in {"value"} |-> Int0(60)]

SentimentFiles ==
    {Table(<<"Date", "Value ">>, [i \in DOMAIN q |-> SentimentDateRow(q[i])]) :
        q \in SeqsUpTo(IsoCells, MaxRows)}
    \cup {Table(<<"timestamp", "value">>, [i \in DOMAIN q |-> SentimentStampRow(q[i])]) :
        q \in SeqsUpTo(DayFirstCells, MaxRows)}
    \cup {Table(<<"value">>, [i \in 1..k |-> SentimentBareRow]) : k \in 0..MaxRows}

\* cleaned tables handed to analyze_and_visualize: each combination of a
\* profit/loss column (absent, numbers), a leverage column (absent, all
\* missing, numbers) and a sentiment score column (absent, present)
KeyCells == {Int0(Midnight(d)) : d \in Days}
PnlCells == {NaN, Int0(10)}
LevCells == {NaN, Int0(3)}
ValCells == {Int0(10), Int0(30), Int0(60), Int0(80), NaN, Str(BadText)}

CleanTraderCols == {<<"date_key">>, <<"closed pnl", "date_key">>,
                    <<"leverage", "date_key">>, <<"closed pnl", "leverage", "date_key">>}

CleanTraderRows(cols, lev) ==
    {[x \in Range(cols) |->
        CASE x = "date_key" -> k [] x = "closed pnl" -> p [] OTHER -> lev] :
        k \in KeyCells, p \in IF HasCol(Table(cols, <<>>), "closed pnl") THEN PnlCells ELSE {NaN}}

CleanTraders ==
    UNION {UNION {{Table(cols, q) : q \in SeqsUpTo(CleanTraderRows(cols, lev), MaxRows)} :
                    lev \in IF HasCol(Table(cols, <<>>), "leverage") THEN LevCells ELSE {NaN}} :
             cols \in CleanTraderCols}

DistinctKeys(q) == \A i, j \in DOMAIN q : i # j => q[i]["date_key"] # q[j]["date_key"]

CleanSentiments ==
    {Table(<<"value", "date_key">>, q) :
        q \in {r \in SeqsUpTo([{"value", "date_key"} -> ValCells \cup KeyCells], MaxRows) :
                 /\ \A i \in DOMAIN r : r[i]["date_key"] \in KeyCells /\ r[i]["value"] \in ValCells
                 /\ DistinctKeys(r)}}
    \cup {Table(<<"date_key">>, q) :
        q \in {r \in SeqsUpTo([{"date_key"} -> KeyCells], MaxRows) : DistinctKeys(r)}}

\* arguments of get_bucket
BucketTexts == {<<>>, <<"2", "5">>, <<"7", "4", ".", "9">>, <<"-", "1">>, <<"a">>, <<"5", "0", "x">>}
BucketInputs ==
    {Int0(n) : n \in -2..MaxScore}
    \cup {Num(m, 1) : m \in {249, 251, 499, 501, 749, 751}}
    \cup {NaN, None} \cup {Str(t) : t \in BucketTexts}

\* profit/loss cells of an object column
PnlAlphabet == {"$", ",", ".", "-", "0", "5", "x"}
PnlExamples == {<<"$", "1", ",", "2", "3", "4", ".", "5", "0">>,
                <<"-", "$", "1", ",", "0", "0", "0">>,
                <<"1", ".", "2", ".", "3">>}
PnlInputs ==
    {Str(t) : t \in SeqsUpTo(PnlAlphabet, MaxLen) \cup PnlExamples} \cup {NaN}

----------------------------------------------------------------------------
(* The script *)

Idle == /\ val = NaN /\ bucket = "" /\ text = NaN /\ pnl_clean = NaN

Init ==
    /\ pc = "start"
    /\ exists \in SUBSET Paths
    /\ trader_csv \in IF TraderFound(exists) THEN TraderFiles ELSE {NoneDf}
    /\ sentiment_csv \in IF SentimentFound(exists) THEN SentimentFiles ELSE {NoneDf}
    /\ trader_df = NoneDf /\ sentiment_df = NoneDf /\ merged_df = NoneDf
    /\ images_dir = FALSE /\ images = NoImages /\ out = <<>>
    /\ Idle

\* line 244: t_df, s_df = load_and_clean_data()
Load ==
    /\ pc = "start"
    /\ LET r == load_and_clean_data(exists, trader_csv, sentiment_csv) IN
        /\ trader_df' = r.t
        /\ sentiment_df' = r.s
        /\ out' = out \o r.out
    /\ pc' = "main"
    /\ UNCHANGED <<exists, trader_csv, sentiment_csv, merged_df, images_dir, images,
                   val, bucket, text, pnl_clean>>

\* line 245: t_df is not None and s_df is not None
MainGuardTrue(t, s) == TRUE
MainGuard(t, s) == t # NoneDf /\ s # NoneDf

\* line 245, condition false: the script ends
Skip ==
    /\ pc = "main"
    /\ ~MainGuard(trader_df, sentiment_df)
    /\ pc' = "exit"
    /\ UNCHANGED <<exists, trader_csv, sentiment_csv, trader_df, sentiment_df, merged_df,
                   images_dir, images, out, val, bucket, text, pnl_clean>>

\* lines 245-246: analyze_and_visualize(t_df, s_df)
Analyze ==
    /\ pc = "main"
    /\ MainGuard(trader_df, sentiment_df)
    /\ LET r == analyze_and_visualize(trader_df, sentiment_df, images_dir) IN
        /\ merged_df' = r.merged
        /\ images_dir' = r.dir
        /\ images' = r.images
        /\ out' = out \o r.out
        /\ pc' = IF r.end = "raise" THEN "raised" ELSE "exit"
    /\ UNCHANGED <<exists, trader_csv, sentiment_csv, trader_df, sentiment_df,
                   val, bucket, text, pnl_clean>>

Next == Load \/ Skip \/ Analyze

Spec == Init /\ [][Next]_vars

----------------------------------------------------------------------------
(* analyze_and_visualize on cleaned tables *)

InitAnalyze ==
    /\ pc = "main"
    /\ exists = Paths
    /\ trader_csv = NoneDf /\ sentiment_csv = NoneDf
    /\ trader_df \in CleanTraders
    /\ sentiment_df \in CleanSentiments
    /\ merged_df = NoneDf
    /\ images_dir = FALSE /\ images = NoImages /\ out = <<>>
    /\ Idle

SpecAnalyze == InitAnalyze /\ [][Analyze]_vars

----------------------------------------------------------------------------
(* get_bucket on one score *)

InitBucket ==
    /\ pc = "bucket"
    /\ val \in BucketInputs
    /\ bucket = "" /\ text = NaN /\ pnl_clean = NaN
    /\ exists = {} /\ trader_csv = NoneDf /\ sentiment_csv = NoneDf
    /\ trader_df = NoneDf /\ sentiment_df = NoneDf /\ merged_df = NoneDf
    /\ images_dir = FALSE /\ images = NoImages /\ out = <<>>

Bucket ==
    /\ pc = "bucket"
    /\ bucket' = get_bucket(val)
    /\ pc' = "exit"
    /\ UNCHANGED <<exists, trader_csv, sentiment_csv, trader_df, sentiment_df, merged_df,
                   images_dir, images, out, val, text, pnl_clean>>

SpecBucket == InitBucket /\ [][Bucket]_vars

----------------------------------------------------------------------------
(* the profit/loss cleaning of line 134 on one cell *)

InitPnl ==
    /\ pc = "pnl"
    /\ text \in PnlInputs
    /\ pnl_clean = NaN /\ val = NaN /\ bucket = ""
    /\ exists = {} /\ trader_csv = NoneDf /\ sentiment_csv = NoneDf
    /\ trader_df = NoneDf /\ sentiment_df = NoneDf /\ merged_df = NoneDf
    /\ images_dir = FALSE /\ images = NoImages /\ out = <<>>

Clean ==
    /\ pc = "pnl"
    /\ pnl_clean' = CleanPnl(text)
    /\ pc' = "exit"
    /\ UNCHANGED <<exists, trader_csv, sentiment_csv, trader_df, sentiment_df, merged_df,
                   images_dir, images, out, val, bucket, text>>

SpecPnl == InitPnl /\ [][Clean]_vars

----------------------------------------------------------------------------
(* Properties *)

LastOut == IF out = <<>> THEN "" ELSE out[Len(out)]
Printed(msg) == \E i \in DOMAIN out : out[i] = msg

\* analyze_and_visualize was called, and it was called with a non-empty join
Analyzed == merged_df # NoneDf
AnalyzedRows == Analyzed /\ merged_df.rows # <<>>

SharedKeys == Keys(trader_df) \cap Keys(sentiment_df)

\* C1: when the two cleaned tables share no date key, analyze_and_visualize
\* prints the merged-result-empty error and returns: no chart file is
\* written and the directory images/ is not created.
C1_NoSharedKeyNoCharts ==
    (Analyzed /\ SharedKeys = {}) =>
        /\ pc = "exit"
        /\ LastOut = "ERROR: Merged DataFrame is still empty."
        /\ DOMAIN images = {}
        /\ ~images_dir

C1_Witness ==
    /\ Analyzed /\ pc = "exit"
    /\ trader_df.rows # <<>> /\ sentiment_df.rows # <<>>
    /\ SharedKeys = {}

TraderHasTime(csv) ==
    \E c \in Range(csv.cols) :
        \/ c = "Timestamp IST"
        \/ c = "Timestamp" /\ csv.rows # <<>>
             /\ \A i \in DOMAIN csv.rows : csv.rows[i][c].k \in {"num", "nan"}
SentimentHasDate(csv) == \E c \in Range(csv.cols) : c \in {"Date", "timestamp"}

TraderMissing == TRADER_DATA_PATH \notin exists /\ "historical_data.csv" \notin exists
SentimentMissing == SENTIMENT_DATA_PATH \notin exists /\ "fear_greed_index.csv" \notin exists

LoadFailure ==
    \/ TraderMissing
    \/ SentimentMissing
    \/ ~TraderHasTime(trader_csv)
    \/ ~SentimentHasDate(sentiment_csv)

LoadErrors ==
    {"CRITICAL ERROR: Could not find trader data.",
     "CRITICAL ERROR: Could not find sentiment data.",
     "ERROR: Could not find a recognizable time column in Trader Data.",
     "ERROR: Could not find a recognizable date column in Sentiment Data."}

\* C2: when an input file is found under neither of its two paths, or a
\* table has no recognizable date/time column, load_and_clean_data prints an
\* error and returns (None, None), and the script ends without calling
\* analyze_and_visualize and without writing an image.
C2_LoadFailureAborts ==
    (pc # "start" /\ LoadFailure) =>
        /\ trader_df = NoneDf /\ sentiment_df = NoneDf
        /\ LastOut \in LoadErrors
        /\ ~Analyzed
        /\ DOMAIN images = {} /\ ~images_dir
        /\ pc # "raised"

C2_Witness ==
    /\ pc = "exit"
    /\ ~TraderMissing /\ ~SentimentMissing
    /\ TraderHasTime(trader_csv) /\ ~SentimentHasDate(sentiment_csv)
    /\ trader_df = NoneDf

SkipMessages == {"-> Leverage column missing. Skipping leverage plot."}
SkipsPrinted == Cardinality({i \in DOMAIN out : out[i] \in SkipMessages})

\* C3: on a non-empty merged table the absence of the profit/loss, the
\* leverage or the sentiment-score column is tolerated: the function runs to
\* its final success message without raising, the warning for an absent
\* profit/loss column is printed and the derived columns of an absent column
\* are not made.
C3_AbsenceTolerated ==
    AnalyzedRows =>
        /\ pc = "exit"
        /\ LastOut = "SUCCESS: Analysis Finished."
        /\ ~HasCol(trader_df, "closed pnl") =>
              Printed("WARNING: PnL column not found.") /\ ~HasCol(merged_df, "pnl_clean")
        /\ ~HasCol(sentiment_df, "value") =>
              ~HasCol(merged_df, "sentiment_value") /\ ~HasCol(merged_df, "sentiment_bucket")

AllMissing(c) ==
    ~HasCol(merged_df, c) \/ \A i \in DOMAIN merged_df.rows : IsNA(merged_df.rows[i][c])

\* the analyses whose required derived column is absent or entirely missing
Unavailable ==
    {f \in {PnlFile, WinFile} : AllMissing("pnl_clean") \/ AllMissing("sentiment_bucket")}
    \cup {f \in {LevFile} : AllMissing("lev_clean")}

\* C4: each of the three analyses either lacks its derived column (absent or
\* entirely missing), and then writes no chart and a skip message is
\* printed for it, or writes its one chart file.
C4_SkipLoggedOrChartWritten ==
    AnalyzedRows =>
        /\ DOMAIN images = ImageFiles \ Unavailable
        /\ SkipsPrinted = Cardinality(Unavailable)

\* C5: get_bucket maps a numeric score v = m * 10^(-e) to Extreme Fear iff
\* v < 25, Fear iff 25 <= v < 50, Greed iff 50 <= v < 75 and Extreme Greed
\* iff v >= 75.
C5_BucketThresholds ==
    (pc = "exit" /\ val.k = "num") =>
        LET m == val.m
            one == Pow10(val.e)
        IN /\ bucket \in Range(order)
           /\ bucket = "Extreme Fear" <=> m < 25 * one
           /\ bucket = "Fear" <=> (25 * one <= m /\ m < 50 * one)
           /\ bucket = "Greed" <=> (50 * one <= m /\ m < 75 * one)
           /\ bucket = "Extreme Greed" <=> m >= 75 * one

C5_Witness ==
    /\ pc = "exit"
    /\ val \in {Int0(25), Int0(50), Int0(75)}
    /\ bucket \in {"Fear", "Greed", "Extreme Greed"}

\* C6: a merged row whose sentiment score is not a number (a text, or a
\* missing value, NaN) has the bucket Unknown.
C6_MissingScoreUnknown ==
    (Analyzed /\ HasCol(merged_df, "sentiment_bucket")) =>
        \A i \in DOMAIN merged_df.rows :
            merged_df.rows[i]["sentiment_value"].k # "num" =>
                merged_df.rows[i]["sentiment_bucket"] = Str(<<"Unknown">>)

\* the rows of a file whose date cell parses
Parseable(csv) ==
    {i \in DOMAIN csv.rows :
        /\ csv.rows[i][csv.cols[1]].k \in {"num", "str"}
        /\ csv.rows[i][csv.cols[1]] # Str(BadText)}

\* C7: the cleaned tables hold exactly the rows whose timestamp parsed, none
\* with a missing date key, and every row of the merged table has a date key
\* that occurs in both cleaned tables.
C7_MergedKeysInBoth ==
    /\ (pc # "start" /\ trader_df # NoneDf) =>
          /\ \A i \in DOMAIN trader_df.rows : trader_df.rows[i]["date_key"].k = "num"
          /\ \A i \in DOMAIN sentiment_df.rows : sentiment_df.rows[i]["date_key"].k = "num"
          /\ Len(trader_df.rows) = Cardinality(Parseable(trader_csv))
          /\ Len(sentiment_df.rows) = Cardinality(Parseable(sentiment_csv))
    /\ Analyzed =>
          \A i \in DOMAIN merged_df.rows :
              /\ merged_df.rows[i]["date_key"].k = "num"
              /\ merged_df.rows[i]["date_key"] \in SharedKeys

C7_Witness ==
    /\ AnalyzedRows
    /\ Len(trader_df.rows) < Len(trader_csv.rows)
    /\ Len(sentiment_df.rows) < Len(sentiment_csv.rows)

\* the claim's precondition: overlapping date ranges and a recognizable
\* profit/loss and sentiment column
OverlapRecognized ==
    /\ Analyzed
    /\ trader_df.rows # <<>> /\ sentiment_df.rows # <<>>
    /\ ~(KeyMax(trader_df).m < KeyMin(sentiment_df).m)
    /\ ~(KeyMin(trader_df).m > KeyMax(sentiment_df).m)
    /\ \E c \in Range(trader_df.cols) \cup Range(sentiment_df.cols) : c = "closed pnl"
    /\ \E c \in Range(trader_df.cols) \cup Range(sentiment_df.cols) : c = "value"

MatchingTrades ==
    {i \in DOMAIN trader_df.rows : trader_df.rows[i]["date_key"] \in Keys(sentiment_df)}
MatchingPairs ==
    {p \in (DOMAIN trader_df.rows) \X (DOMAIN sentiment_df.rows) :
        trader_df.rows[p[1]]["date_key"] = sentiment_df.rows[p[2]]["date_key"]}

\* C8 as claimed: the merged table has as many rows as there are cleaned
\* trade rows whose date key occurs in the cleaned sentiment table.
C8_RowsAreMatchingTrades ==
    OverlapRecognized => Len(merged_df.rows) = Cardinality(MatchingTrades)

\* C8 as amended: the merged table has as many rows as there are pairs of a
\* cleaned trade row and a cleaned sentiment row with equal date keys; that
\* is the number of matching trade rows when no date key occurs twice in the
\* cleaned sentiment table.
C8_RowsAreMatchingPairs ==
    OverlapRecognized =>
        /\ Len(merged_df.rows) = Cardinality(MatchingPairs)
        /\ DistinctKeys(sentiment_df.rows) => Len(merged_df.rows) = Cardinality(MatchingTrades)

C8_Witness ==
    /\ OverlapRecognized
    /\ ~DistinctKeys(sentiment_df.rows)
    /\ Len(merged_df.rows) > Cardinality(MatchingTrades)

IsDigits(t) == t # <<>> /\ \A i \in DOMAIN t : t[i] \in Digits

\* the text without its thousands separators and currency symbols
Stripped(t) == SelectSeq(t, LAMBDA c : c \notin {",", "$"})

\* C9: a profit/loss text is cleaned of ',' and '$' and coerced: "$1,234.50"
\* gives 1234.5, a text of digits (after an optional '-') its integer value,
\* and a text that is no number after cleaning the missing value, never an
\* error.
C9_PnlTextCleaned ==
    (pc = "exit" /\ text.k = "str") =>
        LET t == Stripped(text.s)
            u == IF t # <<>> /\ t[1] = "-" THEN Tail(t) ELSE t
        IN /\ pnl_clean.k \in {"num", "nan"}
           /\ text.s = <<"$", "1", ",", "2", "3", "4", ".", "5", "0">> => pnl_clean = Num(12345, 1)
           /\ IsDigits(u) => pnl_clean.k = "num" /\ pnl_clean.e = 0
           /\ (\A i \in DOMAIN u : u[i] \notin Digits) => pnl_clean = NaN
           /\ (\E i \in DOMAIN u : u[i] \notin Digits \cup {"."}) => pnl_clean = NaN
           /\ Cardinality({i \in DOMAIN u : u[i] = "."}) > 1 => pnl_clean = NaN

C9_Witness ==
    /\ pc = "exit"
    /\ text.s = <<"$", "1", ",", "2", "3", "4", ".", "5", "0">>
    /\ pnl_clean = Num(12345, 1)

Rank(b) == CHOOSE i \in DOMAIN order : order[i] = b
Occurs(b) ==
    \E i \in DOMAIN merged_df.rows : merged_df.rows[i]["sentiment_bucket"] = Str(<<b>>)

\* C10: the categorical axis of each bar chart lists exactly the buckets
\* among Extreme Fear, Fear, Greed, Extreme Greed that occur in the merged
\* table, in that order.
C10_AxisOrder ==
    \A f \in DOMAIN images \cap {PnlFile, WinFile} :
        LET axis == images[f] IN
        /\ \A i \in DOMAIN axis : axis[i] \in Range(order) /\ Occurs(axis[i])
        /\ \A b \in Range(order) : Occurs(b) => b \in Range(axis)
        /\ \A i, j \in DOMAIN axis : i < j => Rank(axis[i]) < Rank(axis[j])

C10_Witness ==
    /\ pc = "exit"
    /\ PnlFile \in DOMAIN images /\ WinFile \in DOMAIN images
    /\ images[PnlFile] = <<"Fear", "Extreme Greed">>
    /\ images[WinFile] = <<"Fear", "Extreme Greed">>
    /\ Occurs("Unknown") \/ Len(merged_df.rows) = 2

====
